---- MODULE Spec2Model ----
(***************************************************************************)
(* Two-car elevator simulator (elevator_sim.py): the per-car SCAN-like     *)
(* next-target selection, the request dispatcher, and the request / undo / *)
(* step commands of the interactive session.                               *)
(***************************************************************************)
EXTENDS Integers, Sequences, FiniteSets, TLC

\* ------------------------------------------------------------------------
\* Program constants
\* ------------------------------------------------------------------------
MIN_FLOOR == -10
MAX_FLOOR == 30
\* the auto command stops once its round counter exceeds this (line 416)
AUTO_SAFETY == 1000

\* ------------------------------------------------------------------------
\* Bounds of the model
\* ------------------------------------------------------------------------
\* the floors requested are -1 .. Span and the two floors just outside
\* [MIN_FLOOR, MAX_FLOOR]
Span == 2
\* most commands typed in one session
MaxCommands == 6

RequestFloors == {MIN_FLOOR - 1, MAX_FLOOR + 1} \cup (-1 .. Span)

VARIABLES
    elevators,   \* <<A, B>>: each [name, current, direction, up, down, history]
    req_q,       \* incoming FIFO of unassigned requests
    undo_stack,  \* stack of <<"request", floor>>, most recent last
    out,         \* what the last command reported
    pre,         \* after an accepted request: the print_status view just
                 \* before it; after any other command: the view now
    ncmd         \* commands typed so far

vars == <<elevators, req_q, undo_stack, out, pre, ncmd>>

Abs(x) == IF x < 0 THEN -x ELSE x

\* ------------------------------------------------------------------------
\* Python lists (0-based positions over 1-based sequences) and heapq
\* ------------------------------------------------------------------------
At(h, pos) == h[pos + 1]

Swap(h, i, j) == [h EXCEPT ![i + 1] = h[j + 1], ![j + 1] = h[i + 1]]

\* list.remove(value): drops the first occurrence; Contains tells whether
\* list.remove raises ValueError
Contains(h, value) == \E i \in 1 .. Len(h) : h[i] = value

ListRemove(h, value) ==
    LET i == CHOOSE k \in 1 .. Len(h) :
                 h[k] = value /\ \A j \in 1 .. (k - 1) : h[j] # value
    IN  SubSeq(h, 1, i - 1) \o SubSeq(h, i + 1, Len(h))

\* heapq._siftdown: move the item at pos up towards startpos
RECURSIVE _siftdown(_, _, _)
_siftdown(heap, startpos, pos) ==
    IF pos > startpos /\ At(heap, pos) < At(heap, (pos - 1) \div 2)
    THEN _siftdown(Swap(heap, pos, (pos - 1) \div 2), startpos, (pos - 1) \div 2)
    ELSE heap

\* the loop of heapq._siftup: bubble the smaller child up until a leaf;
\* yields the list and the leaf position reached
RECURSIVE _siftup_loop(_, _)
_siftup_loop(heap, pos) ==
    LET endpos   == Len(heap)
        leftpos  == 2 * pos + 1
        rightpos == leftpos + 1
        childpos == IF rightpos < endpos
                       /\ ~(At(heap, leftpos) < At(heap, rightpos))
                    THEN rightpos ELSE leftpos
    IN  IF leftpos < endpos
        THEN _siftup_loop(Swap(heap, pos, childpos), childpos)
        ELSE <<heap, pos>>

_siftup(heap, pos) ==
    LET r == _siftup_loop(heap, pos)
    IN  _siftdown(r[1], pos, r[2])

heappush(heap, item) == _siftdown(Append(heap, item), 0, Len(heap))

\* heapq.heappop on a non-empty list: [item, heap]
heappop(heap) ==
    LET lastelt == heap[Len(heap)]
        rest    == SubSeq(heap, 1, Len(heap) - 1)
    IN  IF rest # <<>>
        THEN [item |-> rest[1], heap |-> _siftup([rest EXCEPT ![1] = lastelt], 0)]
        ELSE [item |-> lastelt, heap |-> rest]

RECURSIVE heapify_from(_, _)
heapify_from(x, i) ==
    IF i < 0 THEN x ELSE heapify_from(_siftup(x, i), i - 1)

heapify(x) == heapify_from(x, (Len(x) \div 2) - 1)

\* ------------------------------------------------------------------------
\* UpPQ (min-heap) and DownPQ (max-heap through negated values)
\* ------------------------------------------------------------------------
\* push that appends to the list without restoring the heap order
UpPQ_push_unordered(heap, floor) == Append(heap, floor)

UpPQ_push(heap, floor) == heappush(heap, floor)

UpPQ_pop(heap) == heappop(heap)

UpPQ_peek(heap) == heap[1]

DownPQ_push(heap, floor) == heappush(heap, -floor)

DownPQ_pop(heap) ==
    LET r == heappop(heap) IN [item |-> -r.item, heap |-> r.heap]

DownPQ_peek(heap) == -heap[1]

DownPQ_to_list(heap) == [i \in 1 .. Len(heap) |-> -heap[i]]

\* ------------------------------------------------------------------------
\* Elevator
\* ------------------------------------------------------------------------
Elevator(name) ==
    [name |-> name, current |-> 0, direction |-> "idle",
     up |-> <<>>, down |-> <<>>, history |-> <<>>]

\* add_request without the immediate service of the car's own floor
add_request_no_immediate(e, floor) ==
    IF floor >= e.current
    THEN [e EXCEPT !.up = UpPQ_push(@, floor)]
    ELSE [e EXCEPT !.down = DownPQ_push(@, floor)]

\* add_request that also starts an idle car towards the floor it queues
add_request_sets_direction(e, floor) ==
    IF floor = e.current
    THEN [e EXCEPT !.history = Append(@, floor)]
    ELSE IF floor > e.current
         THEN [e EXCEPT !.up = UpPQ_push(@, floor),
                        !.direction = IF @ = "idle" THEN "up" ELSE @]
         ELSE [e EXCEPT !.down = DownPQ_push(@, floor),
                        !.direction = IF @ = "idle" THEN "down" ELSE @]

\* add_request that picks the bucket by the sign of the floor, not by the
\* car's position
add_request_by_sign(e, floor) ==
    IF floor = e.current
    THEN [e EXCEPT !.history = Append(@, floor)]
    ELSE IF floor > 0
         THEN [e EXCEPT !.up = UpPQ_push(@, floor)]
         ELSE [e EXCEPT !.down = DownPQ_push(@, floor)]

add_request(e, floor) ==
    IF floor = e.current
    THEN [e EXCEPT !.history = Append(@, floor)]
    ELSE IF floor > e.current
         THEN [e EXCEPT !.up = UpPQ_push(@, floor)]
         ELSE [e EXCEPT !.down = DownPQ_push(@, floor)]

has_pending(e) == e.up # <<>> \/ e.down # <<>>

\* choose_direction that goes up only when the up-queue's floor is
\* strictly closer
choose_direction_strict(e) ==
    IF e.up # <<>> /\ e.down # <<>>
    THEN IF Abs(UpPQ_peek(e.up) - e.current) < Abs(DownPQ_peek(e.down) - e.current)
         THEN "up" ELSE "down"
    ELSE IF e.up # <<>> THEN "up"
    ELSE IF e.down # <<>> THEN "down"
    ELSE "idle"

\* the direction an idle car takes (lines 161-176); "idle" when it has
\* nothing to do
choose_direction(e) ==
    IF e.up # <<>> /\ e.down # <<>>
    THEN IF Abs(UpPQ_peek(e.up) - e.current) <= Abs(DownPQ_peek(e.down) - e.current)
         THEN "up" ELSE "down"
    ELSE IF e.up # <<>> THEN "up"
    ELSE IF e.down # <<>> THEN "down"
    ELSE "idle"

\* serve_down that does not log the floor
serve_down_unlogged(e) ==
    LET r == DownPQ_pop(e.down)
    IN  [e EXCEPT !.down = r.heap, !.current = r.item]

\* pop the up-queue's next floor, move there and log it
serve_up(e) ==
    LET r == UpPQ_pop(e.up)
    IN  [e EXCEPT !.up = r.heap, !.current = r.item,
                  !.history = Append(@, r.item)]

serve_down(e) ==
    LET r == DownPQ_pop(e.down)
    IN  [e EXCEPT !.down = r.heap, !.current = r.item,
                  !.history = Append(@, r.item)]

\* after_up without the branch that sets the car idle
after_up_never_idle(e) ==
    IF e.up = <<>> /\ e.down # <<>> THEN "down" ELSE e.direction

\* direction after a pop from the queue of the direction the car had
after_up(e) ==
    IF e.up = <<>> /\ e.down # <<>> THEN "down"
    ELSE IF e.up = <<>> THEN "idle"
    ELSE e.direction

after_down(e) ==
    IF e.down = <<>> /\ e.up # <<>> THEN "up"
    ELSE IF e.down = <<>> THEN "idle"
    ELSE e.direction

\* after_up_stale that turns the car up again, never idle
after_up_stale_never_idle(e) ==
    IF e.down # <<>> THEN "down" ELSE "up"

\* direction after a pop from the opposite queue (stale direction)
after_up_stale(e) ==
    IF e.down # <<>> THEN "down"
    ELSE IF e.up # <<>> THEN "up"
    ELSE "idle"

after_down_stale(e) ==
    IF e.up # <<>> THEN "up"
    ELSE IF e.down # <<>> THEN "down"
    ELSE "idle"

\* move_up that serves nothing when the up-queue is empty and keeps its
\* direction
move_up_waits_when_stale(e) ==
    IF e.up # <<>>
    THEN LET s == serve_up(e)
         IN  [e |-> [s EXCEPT !.direction = after_up(s)], served |-> <<s.current>>]
    ELSE [e |-> e, served |-> <<>>]

\* the branch taken when the direction is 'up' (lines 178-205)
move_up(e) ==
    IF e.up # <<>>
    THEN LET s == serve_up(e)
         IN  [e |-> [s EXCEPT !.direction = after_up(s)], served |-> <<s.current>>]
    ELSE IF e.down # <<>>
    THEN LET s == serve_down([e EXCEPT !.direction = "down"])
         IN  [e |-> [s EXCEPT !.direction = after_up_stale(s)], served |-> <<s.current>>]
    ELSE [e |-> [e EXCEPT !.direction = "idle"], served |-> <<>>]

\* the branch taken when the direction is 'down' (lines 207-232)
move_down(e) ==
    IF e.down # <<>>
    THEN LET s == serve_down(e)
         IN  [e |-> [s EXCEPT !.direction = after_down(s)], served |-> <<s.current>>]
    ELSE IF e.up # <<>>
    THEN LET s == serve_up([e EXCEPT !.direction = "up"])
         IN  [e |-> [s EXCEPT !.direction = after_down_stale(s)], served |-> <<s.current>>]
    ELSE [e |-> [e EXCEPT !.direction = "idle"], served |-> <<>>]

\* move_to_next in which an idle car only takes its direction and serves
\* on the following call
move_to_next_idle_waits(e) ==
    LET d == IF e.direction = "idle" THEN choose_direction(e) ELSE e.direction
    IN  IF e.direction = "idle" THEN [e |-> [e EXCEPT !.direction = d], served |-> <<>>]
        ELSE IF d = "up" THEN move_up(e)
        ELSE move_down(e)

\* Elevator.move_to_next: [e |-> the car afterwards, served |-> <<floor>> or <<>>]
move_to_next(e) ==
    LET d  == IF e.direction = "idle" THEN choose_direction(e) ELSE e.direction
        e1 == [e EXCEPT !.direction = d]
    IN  IF d = "idle" THEN [e |-> e, served |-> <<>>]
        ELSE IF d = "up" THEN move_up(e1)
        ELSE move_down(e1)

\* ------------------------------------------------------------------------
\* Dispatcher
\* ------------------------------------------------------------------------
\* suitable without the case of a car going down
suitable_never_down(elev, floor) ==
    \/ elev.direction = "idle"
    \/ elev.direction = "up" /\ floor >= elev.current

suitable(elev, floor) ==
    \/ elev.direction = "idle"
    \/ elev.direction = "up" /\ floor >= elev.current
    \/ elev.direction = "down" /\ floor <= elev.current

\* rule 3 with a strict comparison: a tie goes to the second car
closer_strict(A, B, floor) ==
    IF Abs(A.current - floor) < Abs(B.current - floor) THEN 1 ELSE 2

\* rule 3 (lines 271-277): index of the closer car, the first on a tie
closer(A, B, floor) ==
    IF Abs(A.current - floor) <= Abs(B.current - floor) THEN 1 ELSE 2

\* rule 2 left out: proximity decides at once
idle_preference_skipped(A, B, floor) ==
    IF Abs(A.current - floor) <= Abs(B.current - floor) THEN 1 ELSE 2

\* rules 2 and 3 (lines 265-277)
idle_preference(A, B, floor) ==
    IF A.direction = "idle" /\ B.direction # "idle" THEN 1
    ELSE IF B.direction = "idle" /\ A.direction # "idle" THEN 2
    ELSE closer(A, B, floor)

\* index in elevs of the car that gets the request
assign_request_to_elevator(floor, elevs) ==
    LET A   == elevs[1]
        B   == elevs[2]
        A_s == suitable(A, floor)
        B_s == suitable(B, floor)
    IN  IF A_s /\ ~B_s THEN 1
        ELSE IF B_s /\ ~A_s THEN 2
        ELSE idle_preference(A, B, floor)

\* ------------------------------------------------------------------------
\* print_status: what the session shows of its state
\* ------------------------------------------------------------------------
Ascending(s) == SortSeq(s, LAMBDA a, b : a < b)

Descending(s) == SortSeq(s, LAMBDA a, b : a > b)

car_status(e) ==
    [floor |-> e.current, dir |-> e.direction, up |-> Ascending(e.up),
     down |-> Descending(DownPQ_to_list(e.down)), history |-> e.history]

print_status(elevs, q, stack) ==
    [cars |-> [i \in 1 .. Len(elevs) |-> car_status(elevs[i])],
     incoming |-> q, undo |-> stack]

\* ------------------------------------------------------------------------
\* The session
\* ------------------------------------------------------------------------
Report(cmd, floor, car, served) ==
    [cmd |-> cmd, floor |-> floor, car |-> car, served |-> served]

Init ==
    /\ elevators = <<Elevator("A"), Elevator("B")>>
    /\ req_q = <<>>
    /\ undo_stack = <<>>
    /\ out = Report("start", 0, 0, <<>>)
    /\ pre = print_status(<<Elevator("A"), Elevator("B")>>, <<>>, <<>>)
    /\ ncmd = 0

\* range check that forgets the upper end
out_of_range_lower_only(floor) == floor < MIN_FLOOR

out_of_range(floor) == floor < MIN_FLOOR \/ floor > MAX_FLOOR

\* command "request <floor>" (lines 314-344)
Request(floor) ==
    IF out_of_range(floor)
    THEN /\ out' = Report("reject", floor, 0, <<>>)
         /\ pre' = print_status(elevators, req_q, undo_stack)
         /\ UNCHANGED <<elevators, req_q, undo_stack>>
    ELSE LET q1       == Append(req_q, floor)
             next_req == Head(q1)
             a        == assign_request_to_elevator(next_req, elevators)
             e2       == add_request(elevators[a], next_req)
         IN  /\ req_q' = Tail(q1)
             /\ undo_stack' = Append(undo_stack, <<"request", floor>>)
             /\ elevators' = [elevators EXCEPT ![a] = e2]
             /\ out' = Report("request", next_req, a, <<>>)
             /\ pre' = print_status(elevators, req_q, undo_stack)

\* what the undo command reports: the floor, and `removed` (lines 355-382)
UndoReport(value, removed) ==
    [cmd |-> "undo", floor |-> value, car |-> 0, served |-> <<>>,
     removed |-> removed]

\* undo_car that looks for the floor itself, not its negation, in the
\* down-heap
undo_car_unsigned(e, value) ==
    LET e1 == IF Contains(e.up, value)
              THEN [e EXCEPT !.up = heapify(ListRemove(@, value))]
              ELSE e
    IN  IF Contains(e1.down, value)
        THEN [e1 EXCEPT !.down = heapify(ListRemove(@, value))]
        ELSE e1

\* undo_car that also re-evaluates the direction: a car left with no
\* target becomes idle
undo_car_resets_idle(e, value) ==
    LET e1 == IF Contains(e.up, value)
              THEN [e EXCEPT !.up = heapify(ListRemove(@, value))]
              ELSE e
        e2 == IF Contains(e1.down, -value)
              THEN [e1 EXCEPT !.down = heapify(ListRemove(@, -value))]
              ELSE e1
    IN  IF e2.up = <<>> /\ e2.down = <<>>
        THEN [e2 EXCEPT !.direction = "idle"]
        ELSE e2

\* the removals the undo command makes on one car (lines 364-378)
undo_car(e, value) ==
    LET e1 == IF Contains(e.up, value)
              THEN [e EXCEPT !.up = heapify(ListRemove(@, value))]
              ELSE e
    IN  IF Contains(e1.down, -value)
        THEN [e1 EXCEPT !.down = heapify(ListRemove(@, -value))]
        ELSE e1

\* command "undo" (lines 347-385)
Undo ==
    IF undo_stack = <<>>
    THEN /\ out' = Report("nothing_to_undo", 0, 0, <<>>)
         /\ pre' = print_status(elevators, req_q, undo_stack)
         /\ UNCHANGED <<elevators, req_q, undo_stack>>
    ELSE LET last  == undo_stack[Len(undo_stack)]
             value == last[2]
         IN  /\ undo_stack' = SubSeq(undo_stack, 1, Len(undo_stack) - 1)
             /\ req_q' = IF Contains(req_q, value)
                         THEN ListRemove(req_q, value) ELSE req_q
             /\ elevators' = [i \in 1 .. Len(elevators) |->
                                  undo_car(elevators[i], value)]
             /\ out' = UndoReport(value,
                    \/ Contains(req_q, value)
                    \/ \E i \in 1 .. Len(elevators) :
                          \/ Contains(elevators[i].up, value)
                          \/ Contains(elevators[i].down, -value))
             /\ pre' = print_status(elevators', req_q', undo_stack')

\* what the step command reports: the floor each car served (lines
\* 396-399), with the direction each car had when the step began
StepReport(served, was) ==
    [cmd |-> "step", floor |-> 0, car |-> 0, served |-> served, was |-> was]

\* command "step" (lines 393-402)
Step ==
    LET moved == [i \in 1 .. Len(elevators) |-> move_to_next(elevators[i])]
    IN  /\ elevators' = [i \in 1 .. Len(elevators) |-> moved[i].e]
        /\ out' = StepReport([i \in 1 .. Len(elevators) |-> moved[i].served],
                              [i \in 1 .. Len(elevators) |-> elevators[i].direction])
        /\ pre' = print_status(elevators', req_q, undo_stack)
        /\ UNCHANGED <<req_q, undo_stack>>

\* what the auto command reports besides the floors served: the value of
\* its counter `steps` and whether it printed "Stopping auto (safety)."
AutoReport(steps, stopped, served) ==
    [cmd |-> "auto", floor |-> 0, car |-> 0, served |-> served,
     steps |-> steps, stopped |-> stopped]

\* one pass of the loop of the auto command (lines 407-418) on
\* [elevs, steps, served, stopped, running]; a pass after the break leaves
\* everything as it is
\* auto_pass that steps the cars before it looks for pending targets
auto_pass_steps_first(s) ==
    IF ~s.running THEN s
    ELSE LET moved == [i \in 1 .. Len(s.elevs) |-> move_to_next(s.elevs[i])]
             after == [i \in 1 .. Len(s.elevs) |-> moved[i].e]
         IN  [elevs   |-> after,
              steps   |-> s.steps + 1,
              served  |-> [i \in 1 .. Len(s.elevs) |-> s.served[i] \o moved[i].served],
              stopped |-> s.steps + 1 > AUTO_SAFETY,
              running |-> /\ ~(s.steps + 1 > AUTO_SAFETY)
                          /\ \E i \in 1 .. Len(after) : has_pending(after[i])]

auto_pass(s) ==
    IF ~s.running THEN s
    ELSE IF ~(\E i \in 1 .. Len(s.elevs) : has_pending(s.elevs[i]))
    THEN [s EXCEPT !.running = FALSE]
    ELSE LET moved == [i \in 1 .. Len(s.elevs) |-> move_to_next(s.elevs[i])]
         IN  [elevs   |-> [i \in 1 .. Len(s.elevs) |-> moved[i].e],
              steps   |-> s.steps + 1,
              served  |-> [i \in 1 .. Len(s.elevs) |->
                               s.served[i] \o moved[i].served],
              stopped |-> s.steps + 1 > AUTO_SAFETY,
              running |-> ~(s.steps + 1 > AUTO_SAFETY)]

\* k passes, halved so that the evaluation stays shallow
RECURSIVE auto_passes(_, _)
auto_passes(s, k) ==
    IF ~s.running \/ k = 0 THEN s
    ELSE IF k = 1 THEN auto_pass(s)
    ELSE auto_passes(auto_passes(s, k \div 2), k - (k \div 2))

\* the whole loop: `steps` grows by one in every pass that does not break
\* and the loop breaks once it exceeds AUTO_SAFETY, so AUTO_SAFETY + 2
\* passes always reach the break
auto_loop(elevs) ==
    auto_passes([elevs |-> elevs, steps |-> 0,
                 served |-> [i \in 1 .. Len(elevs) |-> <<>>],
                 stopped |-> FALSE, running |-> TRUE],
                AUTO_SAFETY + 2)

\* command "auto" (lines 405-420)
Auto ==
    LET r == auto_loop(elevators)
    IN  /\ elevators' = r.elevs
        /\ out' = AutoReport(r.steps, r.stopped, r.served)
        /\ pre' = print_status(elevators', req_q, undo_stack)
        /\ UNCHANGED <<req_q, undo_stack>>

\* one more command is read while the session is within its bound
Typed == ncmd < MaxCommands /\ ncmd' = ncmd + 1

Next ==
    \/ \E floor \in RequestFloors : Typed /\ Request(floor)
    \/ Typed /\ Undo
    \/ Typed /\ Step
    \/ Typed /\ Auto

Spec == Init /\ [][Next]_vars

\* A session whose typed commands are followed by step commands without
\* end: once MaxCommands commands have been typed, only step is executed,
\* and it keeps being executed.
DrainStep == ncmd = MaxCommands /\ Step /\ UNCHANGED ncmd

NextLive == Next \/ DrainStep

\* a step would change some car: ENABLED <<DrainStep>>_elevators, computed
DrainEnabled ==
    /\ ncmd = MaxCommands
    /\ [i \in 1 .. Len(elevators) |-> move_to_next(elevators[i]).e] # elevators

\* weak fairness of the steps that change a car, WF_elevators(DrainStep),
\* written out with DrainEnabled for the ENABLED predicate
StepsKeepComing ==
    \/ []<>(~DrainEnabled)
    \/ []<><<DrainStep>>_elevators

SpecLive == Init /\ [][NextLive]_vars /\ StepsKeepComing

\* ------------------------------------------------------------------------
\* The dispatcher on its own: one request given to two cars in any
\* position and direction
\* ------------------------------------------------------------------------
Directions == {"idle", "up", "down"}

\* a car at floor c with at most one target above and one below; an idle
\* car has stopped at c, a car going up came from c - 1 and a car going
\* down from c + 1.  Each pair of floors and directions of the two cars
\* occurs in sessions of the program.
TrailTo(c, d) ==
    IF d = "up" THEN <<c - 1, c>>
    ELSE IF d = "down" THEN <<c + 1, c>>
    ELSE IF c = 0 THEN <<>> ELSE <<c>>

CarsAt(name, c) ==
    {[name |-> name, current |-> c, direction |-> d,
      up |-> u, down |-> dn, history |-> TrailTo(c, d)] :
        d \in Directions,
        u \in {<<>>} \cup {<<x>> : x \in (c + 1) .. Span},
        dn \in {<<>>} \cup {<<-x>> : x \in (-1) .. (c - 1)}}

CarStates(name) == UNION {CarsAt(name, c) : c \in (-1) .. Span}

InitAssign ==
    /\ elevators \in {<<a, b>> : a \in CarStates("A"), b \in CarStates("B")}
    /\ req_q = <<>>
    /\ undo_stack = <<>>
    /\ out = Report("start", 0, 0, <<>>)
    /\ pre = print_status(elevators, req_q, undo_stack)
    /\ ncmd = 0

NextAssign ==
    \E floor \in RequestFloors : out.cmd = "start" /\ Typed /\ Request(floor)

SpecAssign == InitAssign /\ [][NextAssign]_vars

\* ------------------------------------------------------------------------
\* The auto command on long queues: sessions that begin with n requests
\* for floor 1 and k requests for floor -1, all of which the dispatcher
\* gives to car A (both cars idle at floor 0), followed by auto commands.
\* ------------------------------------------------------------------------
Copies(x, n) == [i \in 1 .. n |-> x]

QueueLengths == (0 .. 3 * MaxCommands) \cup ((AUTO_SAFETY - 2) .. (AUTO_SAFETY + 3))

InitAuto ==
    /\ \E n \in QueueLengths, k \in 0 .. Span :
          /\ elevators = <<[Elevator("A") EXCEPT !.up = Copies(1, n),
                                                  !.down = Copies(1, k)],
                           Elevator("B")>>
          /\ undo_stack = Copies(<<"request", 1>>, n) \o Copies(<<"request", -1>>, k)
    /\ req_q = <<>>
    /\ out = Report("start", 0, 0, <<>>)
    /\ pre = print_status(elevators, req_q, undo_stack)
    /\ ncmd = 0

NextAuto == Typed /\ Auto

SpecAuto == InitAuto /\ [][NextAuto]_vars

\* ------------------------------------------------------------------------
\* Vocabulary of the properties
\* ------------------------------------------------------------------------
Cars == 1 .. 2

Occurrences(s, x) == Cardinality({i \in 1 .. Len(s) : s[i] = x})

\* entries equal to floor over the incoming queue and all cars' queues
Pending(floor, elevs, q) ==
    Occurrences(q, floor)
    + Occurrences(elevs[1].up, floor) + Occurrences(elevs[1].down, -floor)
    + Occurrences(elevs[2].up, floor) + Occurrences(elevs[2].down, -floor)

QueuesEmpty(e) == e.up = <<>> /\ e.down = <<>>

IdleIffEmpty(e) == (e.direction = "idle") <=> QueuesEmpty(e)

\* C1: submit_request(F) directly followed by undo_last() leaves the whole
\* simulation state (every car's floor, direction, queues and history, the
\* incoming queue and the undo stack) as it was before the request.
C1_UndoRestoresState ==
    [][(out.cmd = "request" /\ out'.cmd = "undo")
         => print_status(elevators', req_q', undo_stack') = pre]_vars

\* C2: one undo of a request for floor F takes exactly one entry F out of
\* the incoming queue and the cars' queues together when F is pending
\* anywhere, none otherwise, and never an entry of another floor.
C2_UndoRemovesOneEntry ==
    [][out'.cmd = "undo"
         => \A f \in RequestFloors :
               Pending(f, elevators', req_q')
                 = Pending(f, elevators, req_q)
                   - (IF f = out'.floor /\ Pending(f, elevators, req_q) > 0
                      THEN 1 ELSE 0)]_vars

\* C3: after every step, each car is Idle exactly when both its queues are
\* empty.
C3_IdleIffEmptyAfterStep ==
    out.cmd = "step" => \A i \in Cars : IdleIffEmpty(elevators[i])

\* C3 witness: a step has left one car Idle with nothing pending and the
\* other moving with targets left.
C3_Witness ==
    /\ out.cmd = "step"
    /\ \E i, j \in Cars :
          /\ elevators[i].direction = "idle" /\ QueuesEmpty(elevators[i])
          /\ elevators[j].direction # "idle" /\ ~QueuesEmpty(elevators[j])

\* C4: between commands (after any request, undo or step), each car is Idle
\* exactly when both its queues are empty.
C4_IdleIffEmptyAlways == \A i \in Cars : IdleIffEmpty(elevators[i])

\* C4 as amended: a step leaves each car Idle exactly when both its queues
\* are empty, and a request or an undo changes no car's direction (so after
\* them a car can be Idle with targets pending, or moving with none).
C4_IdleIffEmptyOnlyAfterStep ==
    [][/\ out'.cmd = "step" => \A i \in Cars : IdleIffEmpty(elevators'[i])
       /\ out'.cmd \in {"request", "reject", "undo", "nothing_to_undo"}
            => \A i \in Cars : elevators'[i].direction = elevators[i].direction
      ]_vars

\* C4 witness: after an undo one car is moving with nothing pending and the
\* other is Idle with a target pending.
C4_Witness ==
    /\ out.cmd = "undo"
    /\ \E i, j \in Cars :
          /\ elevators[i].direction # "idle" /\ QueuesEmpty(elevators[i])
          /\ elevators[j].direction = "idle" /\ ~QueuesEmpty(elevators[j])

\* the floor a car visited last; it starts at floor 0
LastVisited(e) == IF e.history = <<>> THEN 0 ELSE e.history[Len(e.history)]

\* every floor a car holds
FloorsOf(e) ==
    {e.current} \cup {e.up[k] : k \in 1 .. Len(e.up)}
                \cup {-e.down[k] : k \in 1 .. Len(e.down)}
                \cup {e.history[k] : k \in 1 .. Len(e.history)}

InRange(floor) == MIN_FLOOR <= floor /\ floor <= MAX_FLOOR

\* C5: a request for floor F given to a car standing at F is logged in that
\* car's history at once; the car's queues, floor and direction stay as
\* they were.
C5_ImmediateService ==
    [][(out'.cmd = "request" /\ elevators[out'.car].current = out'.floor)
         => elevators'[out'.car]
              = [elevators[out'.car] EXCEPT !.history = Append(@, out'.floor)]
      ]_vars

\* C5 witness: a car away from floor 0, with a target pending, has just
\* been given a request for the floor it stands at.
C5_Witness ==
    /\ out.cmd = "request"
    /\ elevators[out.car].current = out.floor
    /\ out.floor # 0
    /\ ~QueuesEmpty(elevators[out.car])
    /\ Len(elevators[out.car].history) >= 2
    /\ LastVisited(elevators[out.car]) = out.floor

\* C6: a car whose direction is Up and that serves from its up-queue goes
\* to a floor no lower than the floor it served last; a car whose direction
\* is Down and that serves from its down-queue goes to a floor no higher;
\* whatever requests and undos came between the two services.
C6_SweepOrder ==
    [][out'.cmd = "step"
         => \A i \in Cars :
               /\ (elevators[i].direction = "up"
                     /\ Len(elevators'[i].up) < Len(elevators[i].up))
                    => LastVisited(elevators'[i]) >= LastVisited(elevators[i])
               /\ (elevators[i].direction = "down"
                     /\ Len(elevators'[i].down) < Len(elevators[i].down))
                    => LastVisited(elevators'[i]) <= LastVisited(elevators[i])
      ]_vars

\* C6 witness: a car has served two floors in a row from its up-queue,
\* each above the floor before it, and is still going up.
C6_Witness ==
    /\ out.cmd = "step"
    /\ \E i \in Cars :
          LET h == elevators[i].history
              n == Len(h)
          IN  /\ out.served[i] # <<>>
              /\ elevators[i].direction = "up"
              /\ n >= 2
              /\ h[n - 1] < h[n]
              /\ (IF n > 2 THEN h[n - 2] ELSE 0) < h[n - 1]

\* C10: a request for a floor outside [MIN_FLOOR, MAX_FLOOR] changes
\* nothing (no car, not the incoming queue, not the undo stack), and so
\* every floor held by a car is within the range.
C10_OutOfRangeRejected ==
    /\ [](\A i \in Cars : \A f \in FloorsOf(elevators[i]) : InRange(f))
    /\ [][(out'.cmd \in {"request", "reject"} /\ ~InRange(out'.floor))
            => UNCHANGED <<elevators, req_q, undo_stack>>]_vars

\* C10 witness: an out-of-range floor has just been refused while targets
\* are pending and floors have been served.
C10_Witness ==
    /\ out.cmd = "reject"
    /\ ~InRange(out.floor)
    /\ undo_stack # <<>>
    /\ \E i \in Cars : ~QueuesEmpty(elevators[i]) /\ elevators[i].history # <<>>

\* the spec's suitability: the car is free, or the floor lies ahead of it
Suits(e, floor) ==
    \/ e.direction = "idle"
    \/ e.direction = "up" /\ floor >= e.current
    \/ e.direction = "down" /\ floor <= e.current

Distance(e, floor) == Abs(e.current - floor)

\* C7: when exactly one of the two cars is suitable for the requested
\* floor, that car gets the request, whatever the distances and the queues.
C7_OnlySuitableCarSelected ==
    [][out'.cmd = "request"
         => \A i \in Cars :
               (Suits(elevators[i], out'.floor)
                  /\ ~Suits(elevators[3 - i], out'.floor))
                 => out'.car = i]_vars

\* C7 witness: the request went to a moving car that is suitable and
\* strictly farther from the floor than the other, unsuitable car.
C7_Witness ==
    /\ out.cmd = "request"
    /\ elevators[out.car].direction # "idle"
    /\ Suits(elevators[out.car], out.floor)
    /\ ~Suits(elevators[3 - out.car], out.floor)
    /\ Distance(elevators[out.car], out.floor)
         > Distance(elevators[3 - out.car], out.floor)

Chosen(floor, cA, dA, cB, dB) ==
    LET sA == dA = "idle" \/ (dA = "up" /\ floor >= cA) \/ (dA = "down" /\ floor <= cA)
        sB == dB = "idle" \/ (dB = "up" /\ floor >= cB) \/ (dB = "down" /\ floor <= cB)
    IN  IF sA /\ ~sB THEN 1
        ELSE IF sB /\ ~sA THEN 2
        ELSE IF dA = "idle" /\ dB # "idle" THEN 1
        ELSE IF dB = "idle" /\ dA # "idle" THEN 2
        ELSE IF Abs(cA - floor) <= Abs(cB - floor) THEN 1 ELSE 2

\* C9: when suitability and idleness do not decide, the car strictly
\* closer to the floor gets the request and the first car gets it on a
\* tie; and in every case the car chosen is a function of the floor and of
\* the two cars' floors and directions alone, whatever their queues and
\* histories hold (both Idle at floor 0: the first car).
C9_CloserCarThenFirst ==
    [][out'.cmd = "request"
         => /\ ((Suits(elevators[1], out'.floor) <=> Suits(elevators[2], out'.floor))
                  /\ ((elevators[1].direction = "idle")
                        <=> (elevators[2].direction = "idle")))
                 => out'.car = IF Distance(elevators[1], out'.floor)
                                    <= Distance(elevators[2], out'.floor)
                               THEN 1 ELSE 2
            /\ out'.car = Chosen(out'.floor,
                                 elevators[1].current, elevators[1].direction,
                                 elevators[2].current, elevators[2].direction)
      ]_vars

\* C9 witness: two moving cars at different floors, both suitable and
\* equally far from the floor; the first car got the request.
C9_Witness ==
    /\ out.cmd = "request"
    /\ out.car = 1
    /\ elevators[1].direction # "idle" /\ elevators[2].direction # "idle"
    /\ Suits(elevators[1], out.floor) /\ Suits(elevators[2], out.floor)
    /\ elevators[1].current # elevators[2].current
    /\ Distance(elevators[1], out.floor) = Distance(elevators[2], out.floor)

\* C11: an undo whose floor is in no queue reports "not found" and leaves
\* every car, the incoming queue and the undo stack as they were.
C11_UndoNotFoundChangesNothing ==
    [][(out'.cmd = "undo" /\ Pending(out'.floor, elevators, req_q) = 0)
         => /\ ~out'.removed
            /\ UNCHANGED <<elevators, req_q, undo_stack>>]_vars

\* C11 as amended: an undo whose floor is in no queue reports "not found"
\* and leaves every car and the incoming queue as they were; the undo
\* stack loses its top entry, the request that was not found.
C11_UndoNotFoundOnlyPops ==
    [][(out'.cmd = "undo" /\ Pending(out'.floor, elevators, req_q) = 0)
         => /\ ~out'.removed
            /\ UNCHANGED <<elevators, req_q>>
            /\ undo_stack # <<>>
            /\ undo_stack' = SubSeq(undo_stack, 1, Len(undo_stack) - 1)
            /\ undo_stack[Len(undo_stack)] = <<"request", out'.floor>>]_vars

\* C11 witness: the floor undone was served by a step and is in no queue,
\* while other targets are pending, one of them on the negated floor.
C11_Witness ==
    /\ out.cmd = "undo"
    /\ ~out.removed
    /\ \E i \in Cars :
          /\ out.floor = LastVisited(elevators[i])
          /\ elevators[i].direction # "idle"
          /\ \/ Contains(elevators[i].down, out.floor)
             \/ Contains(elevators[i].up, -out.floor)

\* history h is an initial part of history g
IsPrefix(h, g) ==
    /\ Len(h) <= Len(g)
    /\ SubSeq(g, 1, Len(h)) = h

\* C12: undo never changes any car's current floor, direction or history;
\* histories only ever grow at the end, whatever the command.
C12_UndoKeepsPositionAndHistory ==
    [][/\ out'.cmd \in {"undo", "nothing_to_undo"}
          => \A i \in Cars :
                /\ elevators'[i].current = elevators[i].current
                /\ elevators'[i].direction = elevators[i].direction
                /\ elevators'[i].history = elevators[i].history
       /\ \A i \in Cars :
             IsPrefix(elevators[i].history, elevators'[i].history)]_vars

\* C12 witness: an undo removed the last target of a moving car, whose
\* direction, floor and history stand as the previous step left them.
C12_Witness ==
    /\ out.cmd = "undo"
    /\ out.removed
    /\ \E i \in Cars :
          /\ elevators[i].direction # "idle"
          /\ ~has_pending(elevators[i])
          /\ elevators[i].history # <<>>
          /\ elevators[i].current # 0

\* C15: in every reachable state each car's current floor is the last
\* element of its history, or 0 when the history is empty.
C15_CurrentIsLastVisited ==
    \A i \in Cars : elevators[i].current = LastVisited(elevators[i])

\* C15 witness: a car that a step moved off floor 0 was then given a
\* request for the floor it stands at, which was logged at once.
C15_Witness ==
    /\ out.cmd = "request"
    /\ LET h == elevators[out.car].history
       IN  /\ Len(h) >= 2
           /\ h[Len(h)] = out.floor
           /\ h[Len(h) - 1] = out.floor
           /\ elevators[out.car].current = out.floor
           /\ out.floor # 0

\* the floors waiting in a car's up-queue and in its down-queue
UpFloors(e) == {e.up[k] : k \in 1 .. Len(e.up)}

DownFloors(e) == {-e.down[k] : k \in 1 .. Len(e.down)}

MinOf(S) == CHOOSE x \in S : \A y \in S : x <= y

MaxOf(S) == CHOOSE x \in S : \A y \in S : x >= y

\* car e became car f by serving the lowest floor of its up-queue
ServedFromUp(e, f, served) ==
    /\ e.up # <<>>
    /\ served = <<MinOf(UpFloors(e))>>
    /\ Len(f.up) = Len(e.up) - 1
    /\ \A x \in UpFloors(e) :
          Occurrences(f.up, x) =
             Occurrences(e.up, x) - (IF x = served[1] THEN 1 ELSE 0)
    /\ f.down = e.down
    /\ f.current = served[1]
    /\ f.history = Append(e.history, served[1])

\* car e became car f by serving the highest floor of its down-queue
ServedFromDown(e, f, served) ==
    /\ e.down # <<>>
    /\ served = <<MaxOf(DownFloors(e))>>
    /\ Len(f.down) = Len(e.down) - 1
    /\ \A x \in DownFloors(e) :
          Occurrences(f.down, -x) =
             Occurrences(e.down, -x) - (IF x = served[1] THEN 1 ELSE 0)
    /\ f.up = e.up
    /\ f.current = served[1]
    /\ f.history = Append(e.history, served[1])

\* C16: a step of an idle car with both queues non-empty serves the
\* up-queue's lowest floor when it is at most as far from the car as the
\* down-queue's highest floor, and that one otherwise; with one queue
\* non-empty it serves that queue; with none it serves nothing and stays
\* idle.
C16_IdleCarServesCloserQueue ==
    [][out'.cmd = "step"
         => \A i \in Cars :
               LET e == elevators[i]
                   f == elevators'[i]
                   served == out'.served[i]
               IN  e.direction = "idle"
                   => IF e.up # <<>> /\ e.down # <<>>
                      THEN IF Abs(MinOf(UpFloors(e)) - e.current)
                                <= Abs(MaxOf(DownFloors(e)) - e.current)
                           THEN ServedFromUp(e, f, served)
                           ELSE ServedFromDown(e, f, served)
                      ELSE IF e.up # <<>> THEN ServedFromUp(e, f, served)
                      ELSE IF e.down # <<>> THEN ServedFromDown(e, f, served)
                      ELSE served = <<>> /\ f = e]_vars

\* C16 witness: a step took a car that was idle at floor 0 up to floor 1
\* while floor -1, just as far, waits in its down-queue.
C16_Witness ==
    /\ out.cmd = "step"
    /\ \E i \in Cars :
          /\ out.was[i] = "idle"
          /\ out.served[i] = <<1>>
          /\ elevators[i].history = <<1>>
          /\ -1 \in DownFloors(elevators[i])

\* the direction a car takes after a pop from queue `own`, looked for first
\* in that queue, then in the other
Reevaluated(f, own) ==
    IF own = "up"
    THEN IF f.up # <<>> THEN "up" ELSE IF f.down # <<>> THEN "down" ELSE "idle"
    ELSE IF f.down # <<>> THEN "down" ELSE IF f.up # <<>> THEN "up" ELSE "idle"

\* C17: a step of a car going up serves its up-queue while that has an
\* entry, and the down-queue only once the up-queue is empty; in that
\* stale case it serves the down-queue's next floor and takes its direction
\* from the queues. The same holds with up and down exchanged.
C17_SweepRule ==
    [][out'.cmd = "step"
         => \A i \in Cars :
               LET e == elevators[i]
                   f == elevators'[i]
                   served == out'.served[i]
               IN  /\ e.direction = "up"
                      => /\ Len(f.down) < Len(e.down) => e.up = <<>>
                         /\ e.up # <<>> => ServedFromUp(e, f, served)
                         /\ e.up = <<>> /\ e.down # <<>>
                               => /\ ServedFromDown(e, f, served)
                                  /\ f.direction = Reevaluated(f, "down")
                   /\ e.direction = "down"
                      => /\ Len(f.up) < Len(e.up) => e.down = <<>>
                         /\ e.down # <<>> => ServedFromDown(e, f, served)
                         /\ e.down = <<>> /\ e.up # <<>>
                               => /\ ServedFromUp(e, f, served)
                                  /\ f.direction = Reevaluated(f, "up")]_vars

\* C17 witness: a step served a floor below a car that was going up, its
\* up-queue having been emptied by an undo.
C17_Witness ==
    /\ out.cmd = "step"
    /\ \E i \in Cars :
          LET h == elevators[i].history
          IN  /\ out.was[i] = "up"
              /\ Len(h) >= 2
              /\ out.served[i] = <<h[Len(h)]>>
              /\ h[Len(h)] < h[Len(h) - 1]

\* occurrences of a floor in a car's queues and history together
Held(e, floor) ==
    Occurrences(e.up, floor) + Occurrences(e.down, -floor)
    + Occurrences(e.history, floor)

\* C18: in one step every car with pending targets serves exactly one
\* floor, which leaves its queues, becomes its current floor and is
\* appended to its history; a car without pending targets serves nothing
\* and keeps its floor, queues and history; no floor passes from one car
\* to the other.
C18_StepServesOnePerCar ==
    [][out'.cmd = "step"
         => \A i \in Cars :
               LET e == elevators[i]
                   f == elevators'[i]
                   served == out'.served[i]
               IN  /\ has_pending(e)
                      => /\ Len(served) = 1
                         /\ Len(f.up) + Len(f.down) = Len(e.up) + Len(e.down) - 1
                         /\ \/ ServedFromUp(e, f, served)
                            \/ ServedFromDown(e, f, served)
                   /\ ~has_pending(e)
                      => /\ served = <<>>
                         /\ f.current = e.current
                         /\ f.up = e.up /\ f.down = e.down
                         /\ f.history = e.history
                   /\ \A x \in RequestFloors : Held(f, x) = Held(e, x)
                   /\ f.name = e.name]_vars

\* C18 witness: one step in which both cars served a floor each.
C18_Witness ==
    /\ out.cmd = "step"
    /\ \A i \in Cars :
          /\ Len(out.served[i]) = 1
          /\ elevators[i].current = out.served[i][1]
          /\ elevators[i].history # <<>>
    /\ out.served[1] # out.served[2]

\* C19: in every reachable state every floor in a car's up-queue is at or
\* above the car's current floor and every floor in its down-queue is at
\* or below it.
C19_QueuesOnTheirSide ==
    \A i \in Cars :
       /\ \A x \in UpFloors(elevators[i]) : x >= elevators[i].current
       /\ \A x \in DownFloors(elevators[i]) : x <= elevators[i].current

\* C19 witness: a car that has moved off floor 0 waits at a floor still
\* pending in its up-queue, with a floor pending below it too.
C19_Witness ==
    \E i \in Cars :
       /\ elevators[i].current # 0
       /\ elevators[i].current \in UpFloors(elevators[i])
       /\ DownFloors(elevators[i]) # {}

\* C13: one auto command never performs more than AUTO_SAFETY rounds of
\* stepping all cars.
C13_AutoAtMostCapRounds ==
    out.cmd = "auto" => out.steps <= AUTO_SAFETY

\* C14: an auto command given while no car has a pending target performs
\* no round, reports completion and leaves every car as it was, a car
\* with a stale direction included.
C14_AutoWithNothingPending ==
    [][(out'.cmd = "auto" /\ \A i \in Cars : ~has_pending(elevators[i]))
         => /\ out'.steps = 0
            /\ ~out'.stopped
            /\ \A i \in Cars : out'.served[i] = <<>>
            /\ UNCHANGED <<elevators, req_q, undo_stack>>]_vars

\* C14 witness: auto ran no round on a car that an undo had left going
\* up or down with both queues empty.
C14_Witness ==
    /\ out.cmd = "auto"
    /\ out.steps = 0
    /\ \E i \in Cars :
          /\ elevators[i].direction # "idle"
          /\ ~has_pending(elevators[i])

\* every queue is empty and every car idle
AllDrained == \A i \in Cars : QueuesEmpty(elevators[i]) /\ elevators[i].direction = "idle"

\* entries waiting in a car's two queues
PendingCount(e) == Len(e.up) + Len(e.down)

MaxPending(elevs) ==
    IF PendingCount(elevs[1]) >= PendingCount(elevs[2])
    THEN PendingCount(elevs[1]) ELSE PendingCount(elevs[2])

\* C20: when only step commands are executed, and keep being executed,
\* every floor pending in a car's queues stays with that car until it is in
\* its history, and eventually all queues are empty and all cars idle; an
\* auto command on queues shorter than AUTO_SAFETY performs as many rounds
\* as the longer of the two cars' pending lists and leaves all queues
\* empty, and all cars idle when it performed a round.
C20_StepsDrainEveryQueue ==
    /\ (ncmd = MaxCommands) ~> AllDrained
    /\ [][/\ (ncmd = MaxCommands /\ ncmd' = ncmd)
             => \A i \in Cars :
                   /\ \A x \in RequestFloors :
                         Held(elevators'[i], x) = Held(elevators[i], x)
                   /\ IsPrefix(elevators[i].history, elevators'[i].history)
                   /\ has_pending(elevators[i])
                         => PendingCount(elevators'[i]) = PendingCount(elevators[i]) - 1
          /\ (out'.cmd = "auto" /\ MaxPending(elevators) < AUTO_SAFETY)
             => /\ out'.steps = MaxPending(elevators)
                /\ ~out'.stopped
                /\ \A i \in Cars : QueuesEmpty(elevators'[i])
                /\ MaxPending(elevators) > 0 => AllDrained'
                /\ \A i \in Cars :
                      /\ \A x \in RequestFloors :
                            Held(elevators'[i], x) = Held(elevators[i], x)
                      /\ IsPrefix(elevators[i].history, elevators'[i].history)]_vars

\* C20 witness: MaxCommands requests were accepted, and the step commands
\* that followed have emptied every queue, a car having moved to at least
\* three floors.
C20_Witness ==
    /\ ncmd = MaxCommands
    /\ Len(undo_stack) = MaxCommands
    /\ out.cmd = "step"
    /\ AllDrained
    /\ \E i \in Cars :
          Cardinality({k \in 1 .. Len(elevators[i].history) :
                         elevators[i].history[k] # 0}) >= 3

====
